---- MODULE Spec2Model ----
(***************************************************************************)
(* Model of app.py: the choice-point specification compiler.               *)
(*                                                                         *)
(* The script runs top to bottom on every submission of the editor text:   *)
(*   load (yaml.load_all) -> validate_all -> keyword expansion loop ->     *)
(*   itertools.product -> node loop -> edge loop -> net.show ->            *)
(*   path-count display.                                                   *)
(* An uncaught exception anywhere ends the run at that line.               *)
(*                                                                         *)
(* Strings are sequences of tokens, so that formatting and joining are     *)
(* real concatenations.  A YAML scalar is a tagged value: a string or an   *)
(* int.  A mapping record is modelled by the set of keys it holds plus the *)
(* value of each key.                                                      *)
(***************************************************************************)
EXTENDS Integers, Sequences, FiniteSets, TLC

\* ------------------------------------------------------------------------
\* Bounds of the model
\* ------------------------------------------------------------------------
MaxDocs == 2
MaxLabels == 3
MaxInt == 3
MaxStep == 2

\* ------------------------------------------------------------------------
\* Values
\* ------------------------------------------------------------------------
StrV(s) == [t |-> "str", s |-> s, n |-> 0]
IntV(i) == [t |-> "int", s |-> <<>>, n |-> i]

DigitTok == <<"0", "1", "2", "3", "4", "5", "6", "7", "8", "9">>

RECURSIVE NatToStr(_)
NatToStr(i) ==
    IF i < 10 THEN <<DigitTok[i + 1]>>
    ELSE NatToStr(i \div 10) \o <<DigitTok[(i % 10) + 1]>>

\* str(i) for a Python int
IntToStr(i) == IF i < 0 THEN <<"-">> \o NatToStr(0 - i) ELSE NatToStr(i)

\* what an f-string field {v} renders
Format(v) == IF v.t = "str" THEN v.s ELSE IntToStr(v.n)

\* ------------------------------------------------------------------------
\* TAGS (app.py 13-19)
\* ------------------------------------------------------------------------
TAGS ==
    {"data_collection", "data_processing", "feature_extraction",
     "statistical_analysis", "other"}

\* ------------------------------------------------------------------------
\* The `choices` field: a YAML list, or a YAML mapping (ordered key/value
\* pairs, as a Python dict keeps them)
\* ------------------------------------------------------------------------
ListC(items) == [kind |-> "list", items |-> items, kv |-> <<>>]
DictC(kv) == [kind |-> "dict", items |-> <<>>, kv |-> kv]

HasKey(c, k) == \E i \in 1..Len(c.kv) : c.kv[i].k = k

\* dict.get(k, default)
Get(c, k, default) ==
    IF HasKey(c, k)
    THEN (c.kv[CHOOSE i \in 1..Len(c.kv) : c.kv[i].k = k]).v
    ELSE default

\* list(c) / iteration over c: the items of a list, the keys of a dict
Iter(c) ==
    IF c.kind = "list" THEN c.items
    ELSE [i \in 1..Len(c.kv) |-> StrV(<<c.kv[i].k>>)]

\* len(c)
PyLen(c) == IF c.kind = "list" THEN Len(c.items) ELSE Len(c.kv)

\* ------------------------------------------------------------------------
\* powerset (app.py 24-32)
\* ------------------------------------------------------------------------
JoinSep == <<",", "\n">>

\* ",\n".join(x) on a tuple of str values
RECURSIVE Join(_)
Join(x) ==
    IF Len(x) = 0 THEN <<>>
    ELSE IF Len(x) = 1 THEN x[1].s
    ELSE x[1].s \o JoinSep \o Join(Tail(x))

\* itertools.combinations(s, r), in its index-lexicographic order
RECURSIVE combinations(_, _)
combinations(s, r) ==
    IF r = 0 THEN << <<>> >>
    ELSE IF Len(s) < r THEN <<>>
    ELSE LET withHead == combinations(Tail(s), r - 1)
             without == combinations(Tail(s), r)
         IN  [i \in 1..Len(withHead) |-> <<s[1]>> \o withHead[i]] \o without

\* chain.from_iterable(combinations(s, r) for r in range(upto + 1)), from r on
RECURSIVE chain(_, _, _)
chain(s, r, upto) ==
    IF r > upto THEN <<>>
    ELSE combinations(s, r) \o chain(s, r + 1, upto)

\* str.join raises TypeError on a tuple holding a non-str
powersetRaises(a) ==
    \E i \in 1..Len(Iter(a)) : Iter(a)[i].t # "str"

\* variant: range(len(s)) in place of range(len(s) + 1)
powerset_short(a) ==
    LET s == Iter(a)
        subsets == chain(s, 0, Len(s) - 1)
    IN  [i \in 1..Len(subsets) |-> StrV(Join(subsets[i]))]

powerset(a) ==
    LET s == Iter(a)
        subsets == chain(s, 0, Len(s))
    IN  [i \in 1..Len(subsets) |-> StrV(Join(subsets[i]))]

\* ------------------------------------------------------------------------
\* range_inclusive (app.py 35-36)
\* ------------------------------------------------------------------------
\* list(range(start, stop, step)) for step # 0
RECURSIVE PyRange(_, _, _)
PyRange(start, stop, step) ==
    IF (step > 0 /\ start >= stop) \/ (step < 0 /\ start <= stop) THEN <<>>
    ELSE <<IntV(start)>> \o PyRange(start + step, stop, step)

\* a.get on a list raises AttributeError; range() with step 0 raises ValueError
\* and None + 1 raises TypeError when a key is missing
range_inclusiveError(a) ==
    IF a.kind # "dict" THEN "AttributeError"
    ELSE IF ~HasKey(a, "min") \/ ~HasKey(a, "max") THEN "TypeError"
    ELSE IF Get(a, "step", 1) = 0 THEN "ValueError"
    ELSE "none"

\* variant: the stop bound without the + 1
range_exclusive(a) ==
    PyRange(Get(a, "min", 0), Get(a, "max", 0), Get(a, "step", 1))

range_inclusive(a) ==
    PyRange(Get(a, "min", 0), Get(a, "max", 0) + 1, Get(a, "step", 1))

\* ------------------------------------------------------------------------
\* Choice-point records (one YAML document each)
\* ------------------------------------------------------------------------
\* keys: the keys the mapping holds; a field whose key is absent is unused
Rec(keys, name, tag, choices, op, rejected) ==
    [keys |-> keys, name |-> name, tag |-> tag, choices |-> choices,
     choices_operation |-> op, rejected_choices |-> rejected]

\* item.get("choices_operation")
GetOperation(item) ==
    IF "choices_operation" \in item.keys THEN item.choices_operation ELSE "None"

\* item.get("rejected_choices"), None rendered as the (equally falsy) empty list
GetRejected(item) ==
    IF "rejected_choices" \in item.keys THEN item.rejected_choices ELSE <<>>

\* ------------------------------------------------------------------------
\* validate_one / validate_all (app.py 39-62)
\* ------------------------------------------------------------------------
\* the try block's assertions, in order
validate_oneAsserts(r) ==
    /\ "name" \in r.keys
    /\ "tag" \in r.keys
    /\ r.tag \in TAGS
    /\ "choices" \in r.keys
    /\ IF r.choices.kind = "dict"
       THEN HasKey(r.choices, "min") /\ HasKey(r.choices, "max")
       ELSE PyLen(r.choices) # 0

\* "ok" when it returns True; otherwise the exception that leaves it: the
\* handler's print reads d['name'] before re-raising
validate_one(r) ==
    IF validate_oneAsserts(r) THEN "ok"
    ELSE IF "name" \notin r.keys THEN "KeyError"
    ELSE "AssertionError"

\* variant: validate_all without the uniqueness assertion
NoUniqueCheck(docs) == TRUE

\* len(names) == len(set(names))
NamesUnique(docs) ==
    \A i, j \in 1..Len(docs) : docs[i].name = docs[j].name => i = j

\* "ok", or the exception validate_all raises
validate_all(docs) ==
    IF \E i \in 1..Len(docs) : "name" \notin docs[i].keys THEN "KeyError"
    ELSE IF ~NamesUnique(docs) THEN "AssertionError"
    ELSE IF \E i \in 1..Len(docs) : validate_one(docs[i]) # "ok"
         THEN validate_one(docs[CHOOSE i \in 1..Len(docs) :
                     /\ validate_one(docs[i]) # "ok"
                     /\ \A j \in 1..(i - 1) : validate_one(docs[j]) = "ok"])
    ELSE "ok"

\* ------------------------------------------------------------------------
\* keyword handling (app.py 142-150)
\* ------------------------------------------------------------------------
\* the exception the body of the loop raises on item, or "none"
ExpandError(item) ==
    IF GetOperation(item) = "powerset"
    THEN (IF powersetRaises(item.choices) THEN "TypeError" ELSE "none")
    ELSE IF GetOperation(item) = "range"
    THEN range_inclusiveError(item.choices)
    ELSE "none"

\* item["choices"] after the operation branch (143-146)
AfterOperation(item) ==
    IF GetOperation(item) = "powerset" THEN ListC(powerset(item.choices))
    ELSE IF GetOperation(item) = "range" THEN ListC(range_inclusive(item.choices))
    ELSE item.choices

SeqRange(s) == {s[i] : i \in 1..Len(s)}

\* list(S): a Python set lists its elements once each, in an order the
\* program does not control
Orderings(S) ==
    {o \in [1..Cardinality(S) -> S] :
        \A i, j \in 1..Cardinality(S) : o[i] = o[j] => i = j}

\* set(item["choices"]) - set(x["name"] for x in item["rejected_choices"])
Surviving(item) ==
    SeqRange(Iter(AfterOperation(item))) \ SeqRange(GetRejected(item))

\* the values item["choices"] can hold after the loop body
Resolved(item) ==
    IF Len(GetRejected(item)) # 0
    THEN {ListC(o) : o \in Orderings(Surviving(item))}
    ELSE {AfterOperation(item)}

\* ------------------------------------------------------------------------
\* itertools.product (app.py 152, 190)
\* ------------------------------------------------------------------------
RECURSIVE prefixAll(_, _)
prefixAll(head, rest) ==
    IF Len(head) = 0 THEN <<>>
    ELSE [i \in 1..Len(rest) |-> <<head[1]>> \o rest[i]]
         \o prefixAll(Tail(head), rest)

RECURSIVE product(_)
product(lists) ==
    IF Len(lists) = 0 THEN << <<>> >>
    ELSE prefixAll(lists[1], product(Tail(lists)))

\* [item["choices"] for item in d], each as the sequence iteration yields
ChoiceLists(docs) == [i \in 1..Len(docs) |-> Iter(docs[i].choices)]

\* variant: the product over d[:-1]
AllChoices_butlast(docs) ==
    product(ChoiceLists(SubSeq(docs, 1, Len(docs) - 1)))

\* list(itertools.product(*[item["choices"] for item in d]))
AllChoices(docs) == product(ChoiceLists(docs))

\* ------------------------------------------------------------------------
\* graph construction (app.py 161-193); net is the pyvis Network of app.py
\* 154-156, undirected.  pyvis keeps node ids unique (add_node skips an id it
\* holds) and, on an undirected network, keeps one edge per pair of ids.
\* ------------------------------------------------------------------------
\* f"<b>{name}</b>\n{choice}"
NodeKey(name, choice) == <<"<b>">> \o name \o <<"</b>", "\n">> \o Format(choice)

HasNode(ns, id) == \E i \in 1..Len(ns) : ns[i].id = id

\* net.add_node: an id the network already holds is left as it is
add_node(ns, id, level) ==
    IF HasNode(ns, id) THEN ns ELSE Append(ns, [id |-> id, level |-> level])

\* net.add_edge on an undirected network: an edge already present in either
\* direction is not added again
add_edge(es, src, to) ==
    IF \E i \in 1..Len(es) :
          \/ (es[i].from = src /\ es[i].to = to)
          \/ (es[i].from = to /\ es[i].to = src)
    THEN es ELSE Append(es, [from |-> src, to |-> to])

\* the inner loop 162-174 for one item
RECURSIVE addNodesFor(_, _, _, _)
addNodesFor(ns, name, chs, level) ==
    IF Len(chs) = 0 THEN ns
    ELSE addNodesFor(add_node(ns, NodeKey(name, chs[1]), level),
                     name, Tail(chs), level)

\* the inner loop 190-193 for one adjacent pair, over product(a, b)
RECURSIVE addEdgesFor(_, _, _, _)
addEdgesFor(es, aname, bname, pairs) ==
    IF Len(pairs) = 0 THEN es
    ELSE addEdgesFor(add_edge(es, NodeKey(aname, pairs[1][1]),
                                  NodeKey(bname, pairs[1][2])),
                     aname, bname, Tail(pairs))

\* ------------------------------------------------------------------------
\* State of one run of the script
\* ------------------------------------------------------------------------
VARIABLES
    text,         \* the editor text: whether it is well-formed YAML, and its documents
    pc,           \* the line group the run is at
    d,            \* the loaded documents, mutated in place by keyword handling
    idx,          \* position of the running for loop (1-based)
    all_choices,  \* list(itertools.product(...))
    nodes,        \* net.nodes, in insertion order
    edges,        \* net.edges, in insertion order
    err,          \* the uncaught exception that ended the run, or "none"
    graph_shown,  \* graph.html written by net.show and embedded in the page
    count_shown   \* the path counts the page displays (none, or one)

vars == <<text, pc, d, idx, all_choices, nodes, edges, err, graph_shown,
          count_shown>>

\* ------------------------------------------------------------------------
\* Inputs
\* ------------------------------------------------------------------------
X == StrV(<<"x">>)
Y == StrV(<<"y">>)
Empty == StrV(<<>>)
\* a label that starts with the text "</b>\n"
SepX == StrV(<<"</b>", "\n", "x">>)
OneI == IntV(1)
OneS == StrV(<<"1">>)

NameA == <<"a">>
\* a name that ends with the text "</b>\n"
NameASep == <<"a", "</b>", "\n">>
InputNames == {NameA, NameASep}

KV(k, v) == [k |-> k, v |-> v]
RangeDict(a, b, s) == DictC(<<KV("min", a), KV("max", b), KV("step", s)>>)
RangeDictNoStep(a, b) == DictC(<<KV("min", a), KV("max", b)>>)

\* (choices, choices_operation, rejected_choices) of the documents of a run;
\* "None" / <<>> stand for an absent key
ChoiceSpecs ==
    {<<ListC(l), "None", <<>>>> :
        l \in {<<>>, <<X>>, <<X, X>>, <<X, Y>>, <<SepX>>, <<OneI, OneS>>}}
    \cup {<<ListC(l), "powerset", <<>>>> : l \in {<<X, Y>>, <<OneI, OneS>>}}
    \cup {<<c, "range", <<>>>> :
            c \in {RangeDictNoStep(0, 1), RangeDict(1, 0, 1), RangeDict(0, 2, 0),
                   RangeDict(0, 2, 2), RangeDict(2, 0, 0 - 1),
                   DictC(<<KV("min", 0)>>)}}
    \cup {<<RangeDict(0, 1, 1), "None", <<>>>>}
    \cup {<<ListC(<<X, Y>>), "None", <<X>>>>,
          <<ListC(<<X>>), "None", <<X>>>>,
          <<ListC(<<X, X>>), "None", <<Y>>>>,
          <<ListC(<<X, Y, X>>), "None", <<SepX>>>>,
          <<ListC(<<X, Y>>), "powerset", <<Empty>>>>}

SpecKeys(cs) ==
    {"name", "tag", "choices"}
    \cup (IF cs[2] # "None" THEN {"choices_operation"} ELSE {})
    \cup (IF Len(cs[3]) # 0 THEN {"rejected_choices"} ELSE {})

WellShaped ==
    {Rec(SpecKeys(cs), n, "other", cs[1], cs[2], cs[3]) :
        n \in InputNames, cs \in ChoiceSpecs}

\* documents that lack a required key or carry an unknown tag
IllShaped ==
    {Rec({"tag", "choices"}, <<>>, "other", ListC(<<X>>), "None", <<>>),
     Rec({"name", "choices"}, NameA, "", ListC(<<X>>), "None", <<>>),
     Rec({"name", "tag", "choices"}, NameA, "bogus", ListC(<<X>>), "None", <<>>),
     Rec({"name", "tag"}, NameA, "other", ListC(<<>>), "None", <<>>)}

Documents == WellShaped \cup IllShaped

DocLists == UNION {[1..n -> Documents] : n \in 0..MaxDocs}

Texts ==
    {[wellformed |-> TRUE, docs |-> l] : l \in DocLists}
    \cup {[wellformed |-> FALSE, docs |-> <<>>]}

\* ------------------------------------------------------------------------
\* The run
\* ------------------------------------------------------------------------
Init ==
    /\ text \in Texts
    /\ pc = "load"
    /\ d = <<>>
    /\ idx = 1
    /\ all_choices = <<>>
    /\ nodes = <<>>
    /\ edges = <<>>
    /\ err = "none"
    /\ graph_shown = FALSE
    /\ count_shown = <<>>

\* variant: the exception is recorded and the script goes on
Raise_swallowed(e) ==
    /\ err' = e
    /\ pc' = (IF pc = "load" THEN "validate"
              ELSE IF pc = "validate" THEN "expand" ELSE pc)
    /\ idx' = (IF pc = "expand" THEN idx + 1 ELSE 1)
    /\ UNCHANGED <<text, d, all_choices, nodes, edges, graph_shown,
                   count_shown>>

\* an uncaught exception ends the run where it is raised
Raise(e) ==
    /\ err' = e
    /\ pc' = "failed"
    /\ UNCHANGED <<text, d, idx, all_choices, nodes, edges, graph_shown,
                   count_shown>>

\* app.py 138: d = list(yaml.load_all(text, yaml.Loader))
Load ==
    /\ pc = "load"
    /\ IF text.wellformed
       THEN /\ d' = text.docs
            /\ pc' = "validate"
            /\ UNCHANGED <<text, idx, all_choices, nodes, edges, err,
                           graph_shown, count_shown>>
       ELSE Raise("YAMLError")

\* app.py 139: validate_all(d)
Validate ==
    /\ pc = "validate"
    /\ IF validate_all(d) = "ok"
       THEN /\ pc' = "expand"
            /\ idx' = 1
            /\ UNCHANGED <<text, d, all_choices, nodes, edges, err,
                           graph_shown, count_shown>>
       ELSE Raise(validate_all(d))

\* app.py 142-150: one pass of the keyword loop
ExpandItem ==
    /\ pc = "expand"
    /\ idx <= Len(d)
    /\ IF ExpandError(d[idx]) = "none"
       THEN /\ \E ch \in Resolved(d[idx]) :
                  d' = [d EXCEPT ![idx].choices = ch]
            /\ idx' = idx + 1
            /\ UNCHANGED <<text, pc, all_choices, nodes, edges, err,
                           graph_shown, count_shown>>
       ELSE Raise(ExpandError(d[idx]))

\* app.py 152: all_choices = list(itertools.product(*[...]))
Product ==
    /\ pc = "expand"
    /\ idx > Len(d)
    /\ all_choices' = AllChoices(d)
    /\ pc' = "nodes"
    /\ idx' = 1
    /\ UNCHANGED <<text, d, nodes, edges, err, graph_shown, count_shown>>

\* app.py 161-174: one pass of the node loop (level = enumerate index)
AddNodes ==
    /\ pc = "nodes"
    /\ idx <= Len(d)
    /\ nodes' = addNodesFor(nodes, d[idx].name, Iter(d[idx].choices), idx - 1)
    /\ idx' = idx + 1
    /\ UNCHANGED <<text, pc, d, all_choices, edges, err, graph_shown,
                   count_shown>>

NodesDone ==
    /\ pc = "nodes"
    /\ idx > Len(d)
    /\ pc' = "edges"
    /\ idx' = 1
    /\ UNCHANGED <<text, d, all_choices, nodes, edges, err, graph_shown,
                   count_shown>>

\* app.py 189-193: one pass of the edge loop, over zip(d[:-1], d[1:])
AddEdges ==
    /\ pc = "edges"
    /\ idx + 1 <= Len(d)
    /\ edges' = addEdgesFor(edges, d[idx].name, d[idx + 1].name,
                            product(<<Iter(d[idx].choices),
                                      Iter(d[idx + 1].choices)>>))
    /\ idx' = idx + 1
    /\ UNCHANGED <<text, pc, d, all_choices, nodes, err, graph_shown,
                   count_shown>>

\* app.py 237-249: net.show("graph.html") and components.html(source_code)
ShowGraph ==
    /\ pc = "edges"
    /\ idx + 1 > Len(d)
    /\ graph_shown' = TRUE
    /\ pc' = "count"
    /\ UNCHANGED <<text, d, idx, all_choices, nodes, edges, err, count_shown>>

\* app.py 251: the path count
ShowCount ==
    /\ pc = "count"
    /\ count_shown' = Append(count_shown, Len(all_choices))
    /\ pc' = "done"
    /\ UNCHANGED <<text, d, idx, all_choices, nodes, edges, err, graph_shown>>

Next ==
    \/ Load
    \/ Validate
    \/ ExpandItem
    \/ Product
    \/ AddNodes
    \/ NodesDone
    \/ AddEdges
    \/ ShowGraph
    \/ ShowCount

Spec == Init /\ [][Next]_vars

\* ------------------------------------------------------------------------
\* range_inclusive alone: the keyword loop on one validated `range` document
\* ------------------------------------------------------------------------
RangeKeys == {"name", "tag", "choices", "choices_operation"}

RangeDocs ==
    {Rec(RangeKeys, NameA, "other", c, "range", <<>>) :
        c \in {RangeDict(a, b, s) : a \in (0 - MaxInt)..MaxInt,
                                    b \in (0 - MaxInt)..MaxInt,
                                    s \in (0 - MaxStep)..MaxStep}
              \cup {RangeDictNoStep(a, b) : a \in (0 - MaxInt)..MaxInt,
                                            b \in (0 - MaxInt)..MaxInt}}

\* the run right after validate_all returned
AtExpand(docs) ==
    /\ text = [wellformed |-> TRUE, docs |-> docs]
    /\ pc = "expand"
    /\ d = docs
    /\ idx = 1
    /\ all_choices = <<>>
    /\ nodes = <<>>
    /\ edges = <<>>
    /\ err = "none"
    /\ graph_shown = FALSE
    /\ count_shown = <<>>

InitRange == \E r \in RangeDocs : AtExpand(<<r>>)

NextRange == ExpandItem

SpecRange == InitRange /\ [][NextRange]_vars

\* ------------------------------------------------------------------------
\* powerset alone: the keyword loop on one validated `powerset` document
\* ------------------------------------------------------------------------
\* the text "x,\ny"
XY == StrV(<<"x", ",", "\n", "y">>)
PowLabels == {Empty, X, Y, XY}

PowLists == UNION {[1..k -> PowLabels] : k \in 0..MaxLabels}

PowDocs ==
    {Rec(RangeKeys, NameA, "other", ListC(l), "powerset", <<>>) : l \in PowLists}

InitPowerset == \E r \in PowDocs : AtExpand(<<r>>)

NextPowerset == ExpandItem

SpecPowerset == InitPowerset /\ [][NextPowerset]_vars

\* ========================================================================
\* Properties
\* ========================================================================
RECURSIVE Pow2(_)
Pow2(k) == IF k = 0 THEN 1 ELSE 2 * Pow2(k - 1)

\* product of the lengths of the resolved choices, in specification order
RECURSIVE LenProduct(_)
LenProduct(docs) ==
    IF Len(docs) = 0 THEN 1
    ELSE PyLen(docs[1].choices) * LenProduct(Tail(docs))

RECURSIVE LenSum(_)
LenSum(docs) ==
    IF Len(docs) = 0 THEN 0
    ELSE PyLen(docs[1].choices) + LenSum(Tail(docs))

Expanded == pc \in {"nodes", "edges", "count", "done"}

\* the single document of a SpecRange / SpecPowerset run has been handled
OneHandled == idx = 2 \/ pc = "failed"

\* C1: every displayed path count, and all_choices once it is computed, has
\* exactly the product of the lengths of the resolved choices of all choice
\* points (validation passed in every run that gets that far).
C1_CountIsProduct ==
    /\ Expanded => Len(all_choices) = LenProduct(d)
    /\ \A k \in 1..Len(count_shown) : count_shown[k] = LenProduct(d)
    /\ pc = "done" => Len(count_shown) = 1

\* a two-level run with different level sizes and more than one path shown
C1_Witness ==
    /\ pc = "done"
    /\ Len(d) = 2
    /\ PyLen(d[1].choices) = 4
    /\ PyLen(d[2].choices) = 2
    /\ count_shown = <<8>>

\* level of the node an edge endpoint names
LevelOf(id) == (nodes[CHOOSE k \in 1..Len(nodes) : nodes[k].id = id]).level

EdgesBetween(l1, l2) ==
    {k \in 1..Len(edges) :
        LevelOf(edges[k].from) = l1 /\ LevelOf(edges[k].to) = l2}

\* C2: once the edge loop is over, levels i and i+1 of sizes m and n are
\* joined by exactly m*n edges, and every edge joins adjacent levels.
C2_CompleteBipartite ==
    pc \in {"count", "done"} =>
        /\ \A i \in 1..(Len(d) - 1) :
              Cardinality(EdgesBetween(i - 1, i))
                  = PyLen(d[i].choices) * PyLen(d[i + 1].choices)
        /\ \A k \in 1..Len(edges) :
              LevelOf(edges[k].to) = LevelOf(edges[k].from) + 1

\* the four kinds of specification the validator must reject
MissingName(docs) == \E i \in 1..Len(docs) : "name" \notin docs[i].keys

BadTag(docs) ==
    \E i \in 1..Len(docs) : "tag" \in docs[i].keys /\ docs[i].tag \notin TAGS

SharedName(docs) ==
    \E i, j \in 1..Len(docs) :
        /\ i # j
        /\ "name" \in docs[i].keys
        /\ "name" \in docs[j].keys
        /\ docs[i].name = docs[j].name

MappingWithoutMax(docs) ==
    \E i \in 1..Len(docs) :
        /\ "choices" \in docs[i].keys
        /\ docs[i].choices.kind = "dict"
        /\ ~HasKey(docs[i].choices, "max")

\* C3: a specification with a record lacking `name`, a tag outside TAGS, a
\* shared name, or a `choices` mapping without `max` never gets past
\* validate_all: the run ends there in an exception.
C3_ValidationRejects ==
    (/\ text.wellformed
     /\ \/ MissingName(text.docs)
        \/ BadTag(text.docs)
        \/ SharedName(text.docs)
        \/ MappingWithoutMax(text.docs))
    => /\ pc \in {"load", "validate", "failed"}
       /\ pc = "failed" => err \in {"KeyError", "AssertionError"}

\* two records, each valid alone, sharing a name: rejected
C3_Witness ==
    /\ pc = "failed"
    /\ err = "AssertionError"
    /\ Len(text.docs) = 2
    /\ text.docs[1].name = text.docs[2].name
    /\ validate_one(text.docs[1]) = "ok"
    /\ validate_one(text.docs[2]) = "ok"

CountEqual(sq, v) == Cardinality({i \in 1..Len(sq) : sq[i] = v})

\* C4 as stated: powerset over k string labels yields 2^k values, exactly one
\* of them the empty string and exactly one of them the rendering of the
\* whole list.
C4_PowersetExactlyOne ==
    OneHandled =>
        LET l == text.docs[1].choices.items
            r == d[1].choices.items
        IN  /\ err = "none"
            /\ Len(r) = Pow2(Len(l))
            /\ CountEqual(r, Empty) = 1
            /\ CountEqual(r, StrV(Join(l))) = 1

\* C4 amended: 2^k values, the first the rendering of the empty subset and
\* the last the rendering of the whole list; these renderings occur exactly
\* once each when no label is the empty string.
C4_PowersetAmended ==
    OneHandled =>
        LET l == text.docs[1].choices.items
            r == d[1].choices.items
        IN  /\ err = "none"
            /\ Len(r) = Pow2(Len(l))
            /\ r[1] = Empty
            /\ r[Len(r)] = StrV(Join(l))
            /\ (\A i \in 1..Len(l) : l[i] # Empty) =>
                   /\ CountEqual(r, Empty) = 1
                   /\ CountEqual(r, StrV(Join(l))) = 1

\* a three-label list with an empty label, expanded to 8 values
C4_Witness ==
    /\ idx = 2
    /\ Len(text.docs[1].choices.items) = 3
    /\ text.docs[1].choices.items[2] = Empty
    /\ Len(d[1].choices.items) = 8
    /\ CountEqual(d[1].choices.items, Empty) = 2

\* the range document a SpecRange run started from
RangeMin == Get(text.docs[1].choices, "min", 0)
RangeMax == Get(text.docs[1].choices, "max", 0)
RangeStep == Get(text.docs[1].choices, "step", 1)

\* C5: range with min=a <= max=b and step=s > 0 resolves to exactly
\* floor((b-a)/s)+1 values, strictly increasing, starting at a, none above b.
C5_RangeCount ==
    (OneHandled /\ RangeStep > 0 /\ RangeMin <= RangeMax) =>
        LET r == d[1].choices.items
        IN  /\ err = "none"
            /\ d[1].choices.kind = "list"
            /\ Len(r) = ((RangeMax - RangeMin) \div RangeStep) + 1
            /\ r[1] = IntV(RangeMin)
            /\ \A i \in 1..Len(r) : r[i].t = "int" /\ r[i].n <= RangeMax
            /\ \A i \in 1..(Len(r) - 1) : r[i].n < r[i + 1].n

\* a range whose step does not divide max - min, with several values
C5_Witness ==
    /\ idx = 2
    /\ RangeStep = 2
    /\ RangeMin = 0 - 2
    /\ RangeMax = 3
    /\ Len(d[1].choices.items) = 3

\* C6: an empty resolved sequence is reported; the run never goes on to the
\* product, the graph or the count with an empty level.
C6_EmptyLevelReported ==
    (\E i \in 1..Len(d) : PyLen(d[i].choices) = 0) =>
        /\ ~Expanded
        /\ ~graph_shown
        /\ count_shown = <<>>

\* parsing, validation or generation fails on the submitted text
RunFails(t) ==
    \/ ~t.wellformed
    \/ validate_all(t.docs) # "ok"
    \/ \E i \in 1..Len(t.docs) : ExpandError(t.docs[i]) # "none"

C8_DegenerateRangeEmpty ==
    (OneHandled /\ (RangeStep <= 0 \/ RangeMin > RangeMax)) =>
        /\ err = "none"
        /\ d[1].choices.kind = "list"
        /\ Len(d[1].choices.items) = 0

\* the (name, value) pairs at the positions of the resolved sequences
PairAt(i, p) == <<d[i].name, Iter(d[i].choices)[p]>>

\* C9: distinct (name, value) pairs have distinct node keys, and the graph
\* has one node per element of every resolved sequence.
C9_NodeKeysCollisionFree ==
    pc \in {"edges", "count", "done"} =>
        /\ \A i, j \in 1..Len(d) :
              \A p \in 1..PyLen(d[i].choices), q \in 1..PyLen(d[j].choices) :
                  PairAt(i, p) # PairAt(j, q) =>
                      NodeKey(PairAt(i, p)[1], PairAt(i, p)[2])
                          # NodeKey(PairAt(j, q)[1], PairAt(j, q)[2])
        /\ Len(nodes) = LenSum(d)

\* a `choices` mapping with min and max whose operation is not `range`
RangeShapedWithoutRange(docs) ==
    \E i \in 1..Len(docs) :
        /\ "choices" \in docs[i].keys
        /\ docs[i].choices.kind = "dict"
        /\ HasKey(docs[i].choices, "min")
        /\ HasKey(docs[i].choices, "max")
        /\ GetOperation(docs[i]) # "range"

\* C10: a record with a range-shaped `choices` mapping and no `range`
\* operation is rejected by validation; its keys never become choice values.
C10_RangeShapeNeedsRange ==
    (text.wellformed /\ RangeShapedWithoutRange(text.docs)) =>
        pc \in {"load", "validate", "failed"}

\* Supporting check for C2: when no two node keys of the run coincide, the
\* edge loop does build the complete bipartite blocks.
KeysDistinct ==
    \A i, j \in 1..Len(d) :
        \A p \in 1..PyLen(d[i].choices), q \in 1..PyLen(d[j].choices) :
            <<i, p>> # <<j, q>> =>
                NodeKey(d[i].name, Iter(d[i].choices)[p])
                    # NodeKey(d[j].name, Iter(d[j].choices)[q])

CompleteBipartiteIfKeysDistinct ==
    (pc \in {"count", "done"} /\ KeysDistinct) =>
        /\ Len(nodes) = LenSum(d)
        /\ \A i \in 1..(Len(d) - 1) :
              Cardinality(EdgesBetween(i - 1, i))
                  = PyLen(d[i].choices) * PyLen(d[i + 1].choices)
        /\ \A k \in 1..Len(edges) :
              LevelOf(edges[k].to) = LevelOf(edges[k].from) + 1

====
